---- MODULE Spec2Model ----
(***************************************************************************)
(* Model of git-scanner (scanner.py): the repository status probe          *)
(* get_git_status, the tree walk scan_directory, and the ancestry filter   *)
(* of print_report.                                                        *)
(*                                                                         *)
(* Strings are sequences of one-character strings.  An optional value is a *)
(* sequence of length 0 (None) or 1 (the value).  A path of the walk is    *)
(* the sequence of directory names from the scan root; a path of the       *)
(* report filter is a character string, because the filter decides        *)
(* ancestry on characters.                                                 *)
(***************************************************************************)
EXTENDS Integers, Sequences, FiniteSets, TLC

VARIABLES
    \* ---- get_git_status ----
    queries,            \* what the three git invocations would answer
    status,             \* Some(returned status dictionary) once the probe returned
    \* ---- scan_directory ----
    parent,             \* the directory tree: parent[d] of every directory d
    dirinfo,            \* per directory: listable, holds '.git', holds a code file
    stack,              \* os.walk: directories still to be listed
    found_repos,        \* list of [path, status]
    uninitialized_dirs, \* list of paths
    probes,             \* arguments of the get_git_status calls made so far
    walked,             \* directories os.walk has yielded to the loop body
    pc,                 \* "walk" | "done" | "aborted" (an exception left scan_directory)
    \* ---- print_report, uninitialized section ----
    uninit,             \* the list handed to print_report
    filtered_uninit,    \* the paths kept so far
    idx,                \* position of the for loop over uninit
    fpc                 \* "start" | "loop" | "done"

vars == <<queries, status, parent, dirinfo, stack, found_repos, uninitialized_dirs,
          probes, walked, pc, uninit, filtered_uninit, idx, fpc>>
probeVars == <<queries, status>>
scanVars == <<parent, dirinfo, stack, found_repos, uninitialized_dirs, probes, walked, pc>>
filterVars == <<uninit, filtered_uninit, idx, fpc>>

----------------------------------------------------------------------------
\* Bounds of the model.
MaxOutLen == 2      \* longest text a git invocation prints
MaxDirs == 4        \* directories of the scanned tree, the scan root included
MaxUninit == 3      \* longest list handed to the ancestry filter

----------------------------------------------------------------------------
\* Strings and optional values.
None == <<>>
Some(v) == <<v>>

Whitespace == {" ", "\n"}

RECURSIVE lstrip(_)
lstrip(s) ==
    IF s # <<>> /\ Head(s) \in Whitespace THEN lstrip(Tail(s)) ELSE s

RECURSIVE rstrip(_)
rstrip(s) ==
    IF s # <<>> /\ s[Len(s)] \in Whitespace THEN rstrip(SubSeq(s, 1, Len(s) - 1)) ELSE s

\* str.strip()
strip(s) == rstrip(lstrip(s))

\* Python truthiness of a string
Truthy(s) == s # <<>>

StringsUpTo(chars, n) == UNION {[1..k -> chars] : k \in 0..n}

----------------------------------------------------------------------------
\* get_git_status

OutChars == {" ", "M"}
Outputs == StringsUpTo(OutChars, MaxOutLen)
Diagnostics == {<<>>, <<"f", "\n">>}
ExcText == <<"E">>

\* One subprocess.run call: it raises, or it completes with an exit code and
\* the captured text.
Raises == [raised |-> TRUE, returncode |-> 0, stdout |-> <<>>, stderr |-> <<>>]
Completed(rc, out, err) ==
    [raised |-> FALSE, returncode |-> rc, stdout |-> out, stderr |-> err]
QueryResults ==
    {Raises} \cup {Completed(rc, out, err) : rc \in {0, 128}, out \in Outputs, err \in Diagnostics}

\* What the probe's three queries answer: 1 status --porcelain,
\* 2 rev-parse @{u}, 3 log @{u}..
ProbeInputs == [1..3 -> QueryResults]

InitialStatus == [is_dirty |-> FALSE, unpushed |-> FALSE, error |-> None]

\* The value that stands for an exception leaving get_git_status.
Propagated == [is_dirty |-> FALSE, unpushed |-> FALSE, error |-> Some(<<"raise">>)]

\* except Exception as e: status['error'] = str(e)
OnException(st) == [st EXCEPT !.error = Some(ExcText)]

\* The output test without the trimming.
HasOutputRaw(result) == Truthy(result.stdout)

\* if result.stdout.strip(): (lines 39 and 63)
HasOutput(result) == Truthy(strip(result.stdout))

\* Lines 53-64: the upstream exists, list the commits it lacks.
CheckUnpushed(st, q) ==
    IF q[3].raised THEN OnException(st)
    ELSE IF HasOutput(q[3]) THEN [st EXCEPT !.unpushed = TRUE]
    ELSE st

\* Lines 42-64: resolve the upstream, then look for unpushed commits.
CheckUpstream(st, q) ==
    IF q[2].raised THEN OnException(st)
    ELSE IF q[2].returncode = 0 THEN CheckUnpushed(st, q)
    ELSE st

\* The probe without its try/except: what an invocation raises leaves the probe.
get_git_status_unguarded(q) ==
    IF q[1].raised THEN Propagated
    ELSE IF q[1].returncode # 0
         THEN [InitialStatus EXCEPT !.error = Some(strip(q[1].stderr))]
    ELSE IF q[2].raised THEN Propagated
    ELSE IF q[2].returncode = 0 /\ q[3].raised THEN Propagated
    ELSE CheckUpstream([InitialStatus EXCEPT !.is_dirty = HasOutput(q[1])], q)

\* The probe with the output test of line 39 made before the exit-code test of
\* line 35.
get_git_status_dirty_first(q) ==
    IF q[1].raised THEN OnException(InitialStatus)
    ELSE IF q[1].returncode # 0
         THEN [InitialStatus EXCEPT !.is_dirty = HasOutput(q[1]),
                                    !.error = Some(strip(q[1].stderr))]
    ELSE CheckUpstream([InitialStatus EXCEPT !.is_dirty = HasOutput(q[1])], q)

get_git_status(q) ==
    IF q[1].raised THEN OnException(InitialStatus)
    ELSE IF q[1].returncode # 0
         THEN [InitialStatus EXCEPT !.error = Some(strip(q[1].stderr))]
    ELSE CheckUpstream([InitialStatus EXCEPT !.is_dirty = HasOutput(q[1])], q)

----------------------------------------------------------------------------
\* scan_directory

Dirs == 1..MaxDirs
ScanRoot == 1

NoTree == [d \in {} |-> 0]

\* The ordered trees over Dirs rooted at ScanRoot, each numbered breadth-first:
\* every other directory has a parent numbered before it, and the children of
\* a directory are listed in increasing order.
Trees == {p \in [Dirs -> 0..MaxDirs] :
            /\ p[ScanRoot] = 0
            /\ \A d \in Dirs \ {ScanRoot} : p[d] \in 1..(d - 1)
            /\ \A d, e \in Dirs : d <= e => p[d] <= p[e]}

DirKinds ==
    {[listable |-> FALSE, has_git |-> FALSE, has_code |-> FALSE]}
    \cup {[listable |-> TRUE, has_git |-> g, has_code |-> c] : g \in BOOLEAN, c \in BOOLEAN}

RECURSIVE PathOf(_, _)
\* os.path.join(top, dirname), from the scan root down to d
PathOf(p, d) == IF p[d] = 0 THEN <<d>> ELSE Append(PathOf(p, p[d]), d)

IsPrefix(s, t) == Len(s) <= Len(t) /\ SubSeq(t, 1, Len(s)) = s
StrictAncestorPath(s, t) == IsPrefix(s, t) /\ s # t

Children(d) == {c \in Dirs : parent[c] = d}

RECURSIVE SeqOfSet(_)
\* the members of a set of directories, in increasing order
SeqOfSet(S) ==
    IF S = {} THEN <<>>
    ELSE LET m == CHOOSE x \in S : \A y \in S : x <= y
         IN <<m>> \o SeqOfSet(S \ {m})

Reverse(s) == [i \in 1..Len(s) |-> s[Len(s) + 1 - i]]

\* Line 87: '.git' in dirs
IsRepo(d) == dirinfo[d].has_git

\* Line 126: any(f.endswith(tuple(CODE_EXTENSIONS)) for f in files)
has_code(d) == dirinfo[d].has_code

\* Only '.git' is removed, the other subdirectories stay to be walked.
PrunedDirsOnlyGit(dirs) == dirs

\* Lines 89 and 109: dirs.remove('.git'); dirs[:] = []
PrunedDirs(dirs) == <<>>

\* The walk stops below a directory that holds code.
DescendUnlessCode(d, dirs) == IF has_code(d) THEN <<>> ELSE dirs

\* Lines 126-130: the walk goes on into every subdirectory, code or not.
DescendDirs(d, dirs) == dirs

\* os.walk with an onerror that raises.
walk_onerror_raise == "raise"

\* os.walk with onerror=None: a directory that cannot be listed is skipped.
walk_onerror == "continue"

\* The loop body without the continue of line 110.
RepoIsCodeCheckedAlways == TRUE

\* Line 110: continue, so the code check is not made for a repository.
RepoIsCodeChecked == FALSE

\* The probe answers the scan draws from.
CleanRun == [i \in 1..3 |-> Completed(0, <<>>, <<>>)]
ScanProbeInputs ==
    { CleanRun,
      [CleanRun EXCEPT ![1] = Completed(128, <<>>, <<"f", "\n">>)],
      [CleanRun EXCEPT ![1] = Completed(0, <<"M">>, <<>>), ![2] = Raises] }

Push(stk, dirs) == stk \o Reverse(dirs)

\* os.walk pops a directory it cannot list: scandir fails, nothing is yielded.
WalkUnlistable ==
    /\ pc = "walk" /\ stack # <<>>
    /\ LET top == stack[Len(stack)]
           rest == SubSeq(stack, 1, Len(stack) - 1)
       IN /\ ~dirinfo[top].listable
          /\ IF walk_onerror = "continue"
             THEN stack' = rest /\ pc' = pc
             ELSE stack' = stack /\ pc' = "aborted"
    /\ UNCHANGED <<parent, dirinfo, found_repos, uninitialized_dirs, probes, walked>>

\* Lines 85-110: the directory holds '.git'.
VisitRepo ==
    /\ pc = "walk" /\ stack # <<>>
    /\ LET top == stack[Len(stack)]
           rest == SubSeq(stack, 1, Len(stack) - 1)
           dirs == SeqOfSet(Children(top))
           current_root == PathOf(parent, top)
       IN /\ dirinfo[top].listable
          /\ IsRepo(top)
          /\ walked' = Append(walked, top)
          /\ probes' = Append(probes, current_root)
          /\ \E q \in ScanProbeInputs :
               LET git_stat == get_git_status(q)
               IN IF git_stat = Propagated
                  THEN /\ pc' = "aborted"
                       /\ UNCHANGED <<stack, found_repos, uninitialized_dirs>>
                  ELSE /\ pc' = pc
                       /\ found_repos' =
                            Append(found_repos, [path |-> current_root, status |-> git_stat])
                       /\ uninitialized_dirs' =
                            IF RepoIsCodeChecked /\ has_code(top)
                            THEN Append(uninitialized_dirs, current_root)
                            ELSE uninitialized_dirs
                       /\ stack' = Push(rest, PrunedDirs(dirs))
    /\ UNCHANGED <<parent, dirinfo>>

\* Lines 85-87 and 126-130: the directory holds no '.git'.
VisitPlain ==
    /\ pc = "walk" /\ stack # <<>>
    /\ LET top == stack[Len(stack)]
           rest == SubSeq(stack, 1, Len(stack) - 1)
           dirs == SeqOfSet(Children(top))
           current_root == PathOf(parent, top)
       IN /\ dirinfo[top].listable
          /\ ~IsRepo(top)
          /\ walked' = Append(walked, top)
          /\ uninitialized_dirs' =
               IF has_code(top) THEN Append(uninitialized_dirs, current_root)
               ELSE uninitialized_dirs
          /\ stack' = Push(rest, DescendDirs(top, dirs))
    /\ UNCHANGED <<parent, dirinfo, found_repos, probes, pc>>

\* Line 132: os.walk is exhausted, return found_repos, uninitialized_dirs
ScanReturn ==
    /\ pc = "walk" /\ stack = <<>>
    /\ pc' = "done"
    /\ UNCHANGED <<parent, dirinfo, stack, found_repos, uninitialized_dirs, probes, walked>>

ProbeIdle == queries = CleanRun /\ status = None
ScanIdle ==
    /\ parent = NoTree /\ dirinfo = NoTree /\ stack = <<>> /\ found_repos = <<>>
    /\ uninitialized_dirs = <<>> /\ probes = <<>> /\ walked = <<>> /\ pc = "done"
FilterIdle == uninit = <<>> /\ filtered_uninit = <<>> /\ idx = 0 /\ fpc = "done"

InitScan ==
    /\ parent \in Trees
    /\ dirinfo \in [Dirs -> DirKinds]
    /\ stack = <<ScanRoot>>
    /\ found_repos = <<>>
    /\ uninitialized_dirs = <<>>
    /\ probes = <<>>
    /\ walked = <<>>
    /\ pc = "walk"
    /\ ProbeIdle /\ FilterIdle

NextScan ==
    \/ WalkUnlistable /\ UNCHANGED <<probeVars, filterVars>>
    \/ VisitRepo /\ UNCHANGED <<probeVars, filterVars>>
    \/ VisitPlain /\ UNCHANGED <<probeVars, filterVars>>
    \/ ScanReturn /\ UNCHANGED <<probeVars, filterVars>>

SpecScan == InitScan /\ [][NextScan]_vars

----------------------------------------------------------------------------
\* The probe on its own.

InitProbe ==
    /\ queries \in ProbeInputs
    /\ status = None
    /\ ScanIdle /\ FilterIdle

\* get_git_status(repo_path) runs and returns.
Probe ==
    /\ status = None
    /\ get_git_status(queries) # Propagated
    /\ status' = Some(get_git_status(queries))
    /\ UNCHANGED <<queries, scanVars, filterVars>>

NextProbe == Probe

SpecProbe == InitProbe /\ [][NextProbe]_vars

----------------------------------------------------------------------------
\* print_report: the filter over the uninitialized directories.

Sep == "/"

\* ord() of the characters the paths are written with
Ord(c) ==
    CASE c = "-" -> 45
      [] c = "/" -> 47
      [] c = "a" -> 97
      [] c = "b" -> 98
      [] c = "x" -> 120

RECURSIVE StrLess(_, _)
\* s < t for Python strings
StrLess(s, t) ==
    IF t = <<>> THEN FALSE
    ELSE IF s = <<>> THEN TRUE
    ELSE IF Head(s) # Head(t) THEN Ord(Head(s)) < Ord(Head(t))
    ELSE StrLess(Tail(s), Tail(t))

\* The list left in the order of the walk.
SortPathsSkipped(list) == list

\* Line 181: uninit.sort()
SortPaths(list) == SortSeq(list, StrLess)

\* posixpath.join(a, b)
os_path_join(a, b) ==
    IF b # <<>> /\ Head(b) = Sep THEN b
    ELSE IF a = <<>> \/ a[Len(a)] = Sep THEN a \o b
    ELSE a \o <<Sep>> \o b

\* The prefix without the separator added.
DirPrefixRaw(p) == p

\* Line 189: os.path.join(parent, '')
DirPrefix(p) == os_path_join(p, <<>>)

\* str.startswith
startswith(d, prefix) == IsPrefix(prefix, d)

\* Lines 186-191: d lies below a path that was kept
is_child(d, kept) == \E i \in 1..Len(kept) : startswith(d, DirPrefix(kept[i]))

\* The paths the filter is fed: the file-system root, a scan root and the
\* directories one and two levels below it.
ReportRoot == <<"/", "a">>
DirNames == {<<"b">>, <<"b", "b">>, <<"b", "-", "x">>}
Below(P) == {os_path_join(p, n) : p \in P, n \in DirNames}
PathUniverse == {<<Sep>>, ReportRoot} \cup Below({ReportRoot}) \cup Below(Below({ReportRoot}))

UninitInputs == UNION {[1..k -> PathUniverse] : k \in 0..MaxUninit}

InitFilter ==
    /\ uninit \in UninitInputs
    /\ filtered_uninit = <<>>
    /\ idx = 0
    /\ fpc = "start"
    /\ ProbeIdle /\ ScanIdle

\* Line 173: if uninit: is false, nothing is filtered or printed
ReportNothing ==
    /\ fpc = "start" /\ uninit = <<>>
    /\ fpc' = "done"
    /\ UNCHANGED <<uninit, filtered_uninit, idx>>

\* Lines 181-182: uninit.sort(); filtered_uninit = []
FilterSort ==
    /\ fpc = "start" /\ uninit # <<>>
    /\ uninit' = SortPaths(uninit)
    /\ filtered_uninit' = <<>>
    /\ idx' = 1
    /\ fpc' = "loop"

\* Lines 183-193: one turn of for d in uninit
FilterStep ==
    /\ fpc = "loop" /\ idx <= Len(uninit)
    /\ LET d == uninit[idx]
       IN filtered_uninit' =
            IF is_child(d, filtered_uninit) THEN filtered_uninit
            ELSE Append(filtered_uninit, d)
    /\ idx' = idx + 1
    /\ UNCHANGED <<uninit, fpc>>

\* Line 195: the loop over uninit is over
FilterEnd ==
    /\ fpc = "loop" /\ idx > Len(uninit)
    /\ fpc' = "done"
    /\ UNCHANGED <<uninit, filtered_uninit, idx>>

NextFilter ==
    \/ ReportNothing /\ UNCHANGED <<probeVars, scanVars>>
    \/ FilterSort /\ UNCHANGED <<probeVars, scanVars>>
    \/ FilterStep /\ UNCHANGED <<probeVars, scanVars>>
    \/ FilterEnd /\ UNCHANGED <<probeVars, scanVars>>

SpecFilter == InitFilter /\ [][NextFilter]_vars

----------------------------------------------------------------------------
\* Properties of scan_directory (SpecScan).

RECURSIVE Ancestors(_)
\* the strict ancestors of d, up to the scan root
Ancestors(d) == IF parent[d] = 0 THEN {} ELSE {parent[d]} \cup Ancestors(parent[d])

RepoPaths == {found_repos[i].path : i \in 1..Len(found_repos)}
UninitPaths == {uninitialized_dirs[i] : i \in 1..Len(uninitialized_dirs)}
Occurrences(path) == Cardinality({i \in 1..Len(found_repos) : found_repos[i].path = path})
AllListable == \A d \in Dirs : dirinfo[d].listable

\* d lies strictly below a directory that cannot be listed
Hidden(d) == \E a \in Ancestors(d) : ~dirinfo[a].listable

\* The tree with every unlistable directory replaced by an empty one: the
\* directories it has, and what each of them holds.
EmptiedDirs == {d \in Dirs : ~Hidden(d)}
EmptiedInfo(d) ==
    IF dirinfo[d].listable THEN dirinfo[d]
    ELSE [listable |-> TRUE, has_git |-> FALSE, has_code |-> FALSE]
Unpruned(d) == \A a \in Ancestors(d) : ~EmptiedInfo(a).has_git
ExpectedRepos == {d \in EmptiedDirs : Unpruned(d) /\ EmptiedInfo(d).has_git}
ExpectedUninit ==
    {d \in EmptiedDirs :
        Unpruned(d) /\ ~EmptiedInfo(d).has_git /\ EmptiedInfo(d).has_code}
ExpectedWalked == {d \in EmptiedDirs : Unpruned(d) /\ dirinfo[d].listable}

Siblings(d, e) == d # e /\ parent[d] = parent[e]
DirOf(path) == path[Len(path)]

\* C1: once scan_directory has returned, no two distinct repository records
\* are nested: the path of one is never a strict ancestor of the other's.
C1_NoNestedRepos ==
    pc = "done" =>
        \A i, j \in 1..Len(found_repos) :
            i # j => ~StrictAncestorPath(found_repos[i].path, found_repos[j].path)

\* C1 witness: the scan returned a repository that has a listable subdirectory
\* holding '.git' of its own, and a second repository elsewhere.
C1_Witness ==
    /\ pc = "done"
    /\ Len(found_repos) >= 2
    /\ \E i \in 1..Len(found_repos) : \E c \in Dirs :
          /\ parent[c] = DirOf(found_repos[i].path)
          /\ dirinfo[c].listable /\ dirinfo[c].has_git

\* C2: in a tree whose directories are all listable, a directory is in the
\* returned repository list exactly once if it holds '.git' and no strict
\* ancestor of it down from the scan root does, and not at all otherwise.
C2_ReposAreTopmostMarked ==
    (pc = "done" /\ AllListable) =>
        \A d \in Dirs :
            Occurrences(PathOf(parent, d)) =
                IF dirinfo[d].has_git /\ \A a \in Ancestors(d) : ~dirinfo[a].has_git
                THEN 1 ELSE 0

\* C2 witness: a repository two levels below the scan root was found under a
\* parent that holds code but no '.git' and was recorded as uninitialized.
C2_Witness ==
    /\ pc = "done" /\ AllListable
    /\ \E d \in Dirs :
          /\ parent[d] # 0 /\ parent[parent[d]] # 0
          /\ PathOf(parent, d) \in RepoPaths
          /\ PathOf(parent, parent[d]) \in UninitPaths
          /\ PathOf(parent, parent[d]) \notin RepoPaths

\* C3: the repository paths and the uninitialized paths returned are disjoint:
\* no directory holding '.git' that the walk listed is in the uninitialized
\* list, and no uninitialized path is a recorded repository or lies below one.
C3_ReposAndUninitDisjoint ==
    pc = "done" =>
        /\ RepoPaths \cap UninitPaths = {}
        /\ \A d \in Dirs :
              (dirinfo[d].listable /\ dirinfo[d].has_git) => PathOf(parent, d) \notin UninitPaths
        /\ \A r \in RepoPaths : \A u \in UninitPaths : ~IsPrefix(r, u)

\* C3 witness: a recorded repository holds code files itself and has a
\* listable subdirectory without '.git' that holds code files too.
C3_Witness ==
    /\ pc = "done"
    /\ \E r \in RepoPaths : \E c \in Dirs :
          /\ dirinfo[DirOf(r)].has_code
          /\ parent[c] = DirOf(r)
          /\ dirinfo[c].listable /\ ~dirinfo[c].has_git /\ dirinfo[c].has_code
    /\ UninitPaths # {}

\* C5: no probe aborts the scan.  At every moment the probes made and the
\* records appended match one to one, each record carries a status, every
\* repository root the walk has listed was probed exactly once, and when the
\* scan returns every directory that is neither inside a repository nor
\* inside an unlistable directory has been listed.
C5_ProbeNeverAbortsScan ==
    /\ pc # "aborted"
    /\ Len(probes) = Len(found_repos)
    /\ \A i \in 1..Len(found_repos) :
          /\ found_repos[i].path = probes[i]
          /\ found_repos[i].status # Propagated
          /\ found_repos[i].status.is_dirty \in BOOLEAN
          /\ found_repos[i].status.unpushed \in BOOLEAN
    /\ \A k \in 1..Len(walked) :
          IsRepo(walked[k]) =>
              Cardinality({i \in 1..Len(probes) : probes[i] = PathOf(parent, walked[k])}) = 1
    /\ pc = "done" => {walked[k] : k \in 1..Len(walked)} = ExpectedWalked

\* C5 witness: a probe whose second invocation raised, made two levels below
\* the scan root, and a probe whose status query exited non-zero were both
\* recorded: after the first the walk went back up and on to the next sibling
\* of that repository's parent.
C5_Witness ==
    /\ pc = "done"
    /\ \E i, j \in 1..Len(found_repos) :
          /\ i < j
          /\ found_repos[i].status.error = Some(ExcText)
          /\ found_repos[j].status.error = Some(<<"f">>)
          /\ parent[DirOf(found_repos[i].path)] # 0
          /\ Siblings(parent[DirOf(found_repos[i].path)], DirOf(found_repos[j].path))

\* C9: a directory that cannot be listed does not abort the scan, and the
\* scan returns what it would return on the tree in which every unlistable
\* directory is an empty one: the same repositories, the same uninitialized
\* directories, each once, and every listable directory outside the skipped
\* subtrees and outside the repositories has been listed.
C9_UnlistableSubtreeSkipped ==
    /\ pc # "aborted"
    /\ pc = "done" =>
          /\ RepoPaths = {PathOf(parent, d) : d \in ExpectedRepos}
          /\ Len(found_repos) = Cardinality(ExpectedRepos)
          /\ UninitPaths = {PathOf(parent, d) : d \in ExpectedUninit}
          /\ Len(uninitialized_dirs) = Cardinality(ExpectedUninit)
          /\ {walked[k] : k \in 1..Len(walked)} = ExpectedWalked
          /\ Len(walked) = Cardinality(ExpectedWalked)

\* C9 witness: a directory below the scan root could not be listed, it has a
\* subdirectory holding '.git' that was not recorded, and a later sibling of
\* it was recorded as a repository.
C9_Witness ==
    /\ pc = "done"
    /\ \E u \in Dirs \ {ScanRoot} : \E c, e \in Dirs :
          /\ ~dirinfo[u].listable
          /\ parent[c] = u /\ dirinfo[c].has_git
          /\ PathOf(parent, c) \notin RepoPaths
          /\ Siblings(u, e) /\ e > u
          /\ PathOf(parent, e) \in RepoPaths

----------------------------------------------------------------------------
\* Properties of get_git_status (SpecProbe).

\* the text has a character that trimming keeps
NonBlank(text) == \E i \in 1..Len(text) : text[i] \notin Whitespace

Returned == status # None
Result == status[1]
ErrorSet(st) == st.error # None

\* the status query completed with exit code zero
StatusQueryOk == ~queries[1].raised /\ queries[1].returncode = 0
\* the upstream query was made, completed, and resolved an upstream
UpstreamResolved == StatusQueryOk /\ ~queries[2].raised /\ queries[2].returncode = 0
\* the upstream query was made, completed, and found no upstream
NoUpstream == StatusQueryOk /\ ~queries[2].raised /\ queries[2].returncode # 0
\* none of the invocations the probe made raised
NothingRaised ==
    /\ ~queries[1].raised
    /\ StatusQueryOk => ~queries[2].raised
    /\ UpstreamResolved => ~queries[3].raised
\* the failure the probe met was at the status query
FailedAtStatusQuery == queries[1].raised \/ queries[1].returncode # 0

\* C6: when the status query and the upstream query both exit zero and the
\* commit-listing query exits non-zero, the returned status has its error set.
C6_LogFailureIsError ==
    (Returned /\ UpstreamResolved /\ ~queries[3].raised /\ queries[3].returncode # 0)
        => ErrorSet(Result)

\* C7 as claimed: every returned status whose error is set has is_dirty and
\* unpushed both false, whichever query the failure occurred at.
C7_ErrorLeavesDefaults ==
    (Returned /\ ErrorSet(Result)) => (~Result.is_dirty /\ ~Result.unpushed)

\* C7 amended: every returned status whose error is set has unpushed false;
\* is_dirty is false when the failure was at the status query, and when a
\* later invocation raised is_dirty tells whether the status query printed
\* anything but whitespace.
C7_ErrorLeavesUnpushedDefault ==
    (Returned /\ ErrorSet(Result)) =>
        /\ ~Result.unpushed
        /\ FailedAtStatusQuery => ~Result.is_dirty
        /\ ~FailedAtStatusQuery => (Result.is_dirty <=> NonBlank(queries[1].stdout))

\* C7 witness: the status query exited zero and printed status lines, the
\* upstream was resolved, the commit-listing invocation raised, and the probe
\* returned the error with is_dirty true and unpushed false.
C7_Witness ==
    /\ Returned /\ ErrorSet(Result)
    /\ UpstreamResolved /\ queries[3].raised
    /\ NonBlank(queries[1].stdout)
    /\ Result.is_dirty /\ ~Result.unpushed

\* C8: when the status query exits zero and no invocation raises, unpushed is
\* true exactly when the upstream query exits zero and the commit listing is
\* non-empty after trimming, whatever is_dirty is; with no upstream, unpushed
\* is false and the error stays unset.
C8_UnpushedIffUpstreamAhead ==
    (Returned /\ StatusQueryOk /\ NothingRaised) =>
        /\ Result.unpushed <=> (UpstreamResolved /\ NonBlank(queries[3].stdout))
        /\ Result.is_dirty <=> NonBlank(queries[1].stdout)
        /\ NoUpstream => (~Result.unpushed /\ ~ErrorSet(Result))

\* C8 witness: a dirty repository with an upstream whose commit listing is
\* padded with whitespace was reported dirty and unpushed.
C8_Witness ==
    /\ Returned /\ StatusQueryOk /\ NothingRaised /\ UpstreamResolved
    /\ queries[3].stdout = <<" ", "M">>
    /\ Result.is_dirty /\ Result.unpushed /\ ~ErrorSet(Result)

----------------------------------------------------------------------------
\* Properties of the ancestry filter of print_report (SpecFilter).

RECURSIVE Segments(_)
\* the names between the separators of a path, empty ones left out
Segments(path) ==
    IF path = <<>> THEN <<>>
    ELSE IF Head(path) = Sep THEN Segments(Tail(path))
    ELSE LET n == IF \E i \in 1..Len(path) : path[i] = Sep
                  THEN (CHOOSE i \in 1..Len(path) :
                            path[i] = Sep /\ \A j \in 1..(i - 1) : path[j] # Sep) - 1
                  ELSE Len(path)
         IN <<SubSeq(path, 1, n)>> \o Segments(SubSeq(path, n + 1, Len(path)))

\* p is a strict ancestor of q by whole path segments
SegmentAncestor(p, q) == StrictAncestorPath(Segments(p), Segments(q))

\* d has no strict ancestor among the paths handed to the filter
Topmost(d) == \A i \in 1..Len(uninit) : ~SegmentAncestor(uninit[i], d)

\* C4: after the filter, no surviving path is a strict ancestor, by whole
\* segments, of another surviving path.
C4_SurvivorsNotNested ==
    fpc = "done" =>
        \A i, j \in 1..Len(filtered_uninit) :
            filtered_uninit[i] # filtered_uninit[j]
                => ~SegmentAncestor(filtered_uninit[i], filtered_uninit[j])

\* C4 witness: the filter finished on a list of three paths, dropped one and
\* kept two different ones.
C4_Witness ==
    /\ fpc = "done"
    /\ Len(uninit) = MaxUninit
    /\ Len(filtered_uninit) = 2
    /\ filtered_uninit[1] # filtered_uninit[2]

\* the list holds no path twice
NoDuplicates(list) == \A i, j \in 1..Len(list) : list[i] = list[j] => i = j

\* C10: the filter keeps exactly the topmost entries: a path survives if and
\* only if no input path is its strict ancestor by whole segments, and on an
\* input that holds no path twice the surviving list is the sorted input
\* without the paths that have such an ancestor.
C10_KeepsExactlyTopmost ==
    fpc = "done" =>
        /\ {filtered_uninit[i] : i \in 1..Len(filtered_uninit)}
              = {uninit[i] : i \in {k \in 1..Len(uninit) : Topmost(uninit[k])}}
        /\ NoDuplicates(uninit) => filtered_uninit = SelectSeq(uninit, Topmost)

\* C10 witness: of '/a/b', '/a/b-x' and '/a/b/b', where '/a/b-x' sorts between
\* the ancestor and its descendant, the filter kept '/a/b' and '/a/b-x'.
C10_Witness ==
    /\ fpc = "done"
    /\ uninit = << <<"/", "a", "/", "b">>,
                   <<"/", "a", "/", "b", "-", "x">>,
                   <<"/", "a", "/", "b", "/", "b">> >>
    /\ filtered_uninit = << <<"/", "a", "/", "b">>, <<"/", "a", "/", "b", "-", "x">> >>

====
